---- MODULE Spec2Model ----
(***************************************************************************)
(* Prompt optimizer of yockii/gollm_cn: the assessment engine              *)
(* (assessPrompt), the termination test (isOptimizationGoalMet), the       *)
(* improvement engine (generateImprovedPrompt) and the round loop that     *)
(* drives them.                                                            *)
(*                                                                         *)
(* Numbers.  Scores and thresholds are float64 in the code.  Here both are *)
(* integers counted in the same unit, 1/Unit: a score of 20 is 20*Unit, a  *)
(* threshold of 1.0 is Unit.  The comparison                               *)
(* OverallScore >= 20*threshold reads the same in any common unit.         *)
(* Grade-point values (4.3, 3.7, ...) are counted in tenths.               *)
(***************************************************************************)
EXTENDS Integers, Sequences, FiniteSets, TLC

VARIABLES
    cfg,            \* the PromptOptimizer's configuration, fixed at construction
    pc,             \* controller state: Scoring, Deciding, Improving, Done, Failed
    phase,          \* position inside Scoring/Improving: fresh, inflight, wait
    currentPrompt,  \* the prompt the next Scoring assesses
    entry,          \* the OptimizationEntry of the latest successful Scoring
    history,        \* po.history, oldest first
    log,            \* what Generate did on each attempt of the current state
    waits,          \* retry delays completed in the current state
    rounds,         \* Scoring states entered so far
    iteration,      \* Improving states completed so far
    result,         \* the prompt the run returned
    err,            \* the error the run returned
    cancelled,      \* whether ctx is done
    args,           \* arguments of a single function call under test
    ret             \* what that call returned

vars == << cfg, pc, phase, currentPrompt, entry, history, log, waits, rounds,
           iteration, result, err, cancelled, args, ret >>

ctlVars == << cfg, pc, phase, currentPrompt, entry, history, log, waits, rounds,
              iteration, result, err, cancelled >>

callVars == << args, ret >>

(***************************************************************************)
(* Bounds of the model.                                                    *)
(***************************************************************************)
Unit == 2

MaxIterations == 2

MaxRetriesBound == 2

(***************************************************************************)
(* Values.                                                                 *)
(***************************************************************************)
MaxScore == 20 * Unit

NoErr == [kind |-> "nil", cause |-> "nil"]

Error(kind, cause) == [kind |-> kind, cause |-> cause]

\* The error a failed run returns: the failing state, the attempts made in
\* it, and the underlying error.
NoRunErr == [state |-> "nil", attempts |-> 0, cause |-> NoErr]

RunErr(state, attempts, cause) ==
    [state |-> state, attempts |-> attempts, cause |-> cause]

\* A nil *llm.Prompt, and the zero llm.Prompt (empty Input).
NilPrompt == "<nil>"

ZeroPrompt == ""

InitialPrompt == "initial"

\* The zero PromptAssessment and the zero OptimizationEntry.
ZeroAssessment ==
    [metrics |-> 0, strengths |-> 0, weaknesses |-> 0, suggestions |-> 0,
     overallScore |-> 0, overallGrade |-> ""]

ZeroEntry == [prompt |-> NilPrompt, assessment |-> ZeroAssessment]

\* Rating systems a caller can pass, and grade strings an assessment can carry.
RatingSystems == {"", "numerical", "letter", "stars"}

TableGrades ==
    {"A+", "A", "A-", "B+", "B", "B-", "C+", "C", "C-", "D+", "D", "D-", "F"}

GradeStrings == TableGrades \cup {"", "E", "18"}

(***************************************************************************)
(* isOptimizationGoalMet                                                   *)
(***************************************************************************)
\* The grade table of the "letter" case, in tenths of a grade point.
\* gradeValues_NoAPlus is its mutant: the table without the key "A+".
gradeValues_NoAPlus ==
    [g \in TableGrades \ {"A+"} |->
        CASE g = "A" -> 40 [] g = "A-" -> 37
          [] g = "B+" -> 33 [] g = "B" -> 30 [] g = "B-" -> 27
          [] g = "C+" -> 23 [] g = "C" -> 20 [] g = "C-" -> 17
          [] g = "D+" -> 13 [] g = "D" -> 10 [] g = "D-" -> 7
          [] OTHER -> 0]

gradeValues ==
    [g \in TableGrades |->
        CASE g = "A+" -> 43 [] g = "A" -> 40 [] g = "A-" -> 37
          [] g = "B+" -> 33 [] g = "B" -> 30 [] g = "B-" -> 27
          [] g = "C+" -> 23 [] g = "C" -> 20 [] g = "C-" -> 17
          [] g = "D+" -> 13 [] g = "D" -> 10 [] g = "D-" -> 7
          [] OTHER -> 0]

\* Mutants of isOptimizationGoalMet: a strict comparison in either branch.
GoalMet_StrictNumerical(po, assessment) ==
    IF po.ratingSystem = ""
    THEN [met |-> FALSE, err |-> NoErr]
    ELSE CASE po.ratingSystem = "numerical" ->
                [met |-> assessment.overallScore > 20 * po.threshold, err |-> NoErr]
           [] po.ratingSystem = "letter" ->
                IF assessment.overallGrade \notin DOMAIN gradeValues
                THEN [met |-> FALSE,
                      err |-> Error("invalid grade", assessment.overallGrade)]
                ELSE [met |-> gradeValues[assessment.overallGrade] >= 37,
                      err |-> NoErr]
           [] OTHER ->
                [met |-> FALSE,
                 err |-> Error("unknown rating system", po.ratingSystem)]

\* A third mutant: the early return for an unset rating system is missing.
GoalMet_NoUnsetCase(po, assessment) ==
    CASE po.ratingSystem = "numerical" ->
           [met |-> assessment.overallScore >= 20 * po.threshold, err |-> NoErr]
      [] po.ratingSystem = "letter" ->
           IF assessment.overallGrade \notin DOMAIN gradeValues
           THEN [met |-> FALSE,
                 err |-> Error("invalid grade", assessment.overallGrade)]
           ELSE [met |-> gradeValues[assessment.overallGrade] >= 37,
                 err |-> NoErr]
      [] OTHER ->
           [met |-> FALSE,
            err |-> Error("unknown rating system", po.ratingSystem)]

GoalMet_StrictLetter(po, assessment) ==
    IF po.ratingSystem = ""
    THEN [met |-> FALSE, err |-> NoErr]
    ELSE CASE po.ratingSystem = "numerical" ->
                [met |-> assessment.overallScore >= 20 * po.threshold, err |-> NoErr]
           [] po.ratingSystem = "letter" ->
                IF assessment.overallGrade \notin DOMAIN gradeValues
                THEN [met |-> FALSE,
                      err |-> Error("invalid grade", assessment.overallGrade)]
                ELSE [met |-> gradeValues[assessment.overallGrade] > 37,
                      err |-> NoErr]
           [] OTHER ->
                [met |-> FALSE,
                 err |-> Error("unknown rating system", po.ratingSystem)]

\* Two more mutants: the numerical comparison is reversed; a grade outside
\* the table counts as not met, with no error.
GoalMet_Reversed(po, assessment) ==
    IF po.ratingSystem = ""
    THEN [met |-> FALSE, err |-> NoErr]
    ELSE CASE po.ratingSystem = "numerical" ->
                [met |-> assessment.overallScore <= 20 * po.threshold, err |-> NoErr]
           [] po.ratingSystem = "letter" ->
                IF assessment.overallGrade \notin DOMAIN gradeValues
                THEN [met |-> FALSE,
                      err |-> Error("invalid grade", assessment.overallGrade)]
                ELSE [met |-> gradeValues[assessment.overallGrade] >= 37,
                      err |-> NoErr]
           [] OTHER ->
                [met |-> FALSE,
                 err |-> Error("unknown rating system", po.ratingSystem)]

GoalMet_SilentInvalidGrade(po, assessment) ==
    IF po.ratingSystem = ""
    THEN [met |-> FALSE, err |-> NoErr]
    ELSE CASE po.ratingSystem = "numerical" ->
                [met |-> assessment.overallScore >= 20 * po.threshold, err |-> NoErr]
           [] po.ratingSystem = "letter" ->
                IF assessment.overallGrade \notin DOMAIN gradeValues
                THEN [met |-> FALSE, err |-> NoErr]
                ELSE [met |-> gradeValues[assessment.overallGrade] >= 37,
                      err |-> NoErr]
           [] OTHER ->
                [met |-> FALSE,
                 err |-> Error("unknown rating system", po.ratingSystem)]

isOptimizationGoalMet(po, assessment) ==
    IF po.ratingSystem = ""
    THEN [met |-> FALSE, err |-> NoErr]
    ELSE CASE po.ratingSystem = "numerical" ->
                [met |-> assessment.overallScore >= 20 * po.threshold, err |-> NoErr]
           [] po.ratingSystem = "letter" ->
                IF assessment.overallGrade \notin DOMAIN gradeValues
                THEN [met |-> FALSE,
                      err |-> Error("invalid grade", assessment.overallGrade)]
                ELSE [met |-> gradeValues[assessment.overallGrade] >= 37,
                      err |-> NoErr]
           [] OTHER ->
                [met |-> FALSE,
                 err |-> Error("unknown rating system", po.ratingSystem)]

(***************************************************************************)
(* The text-generation service and the response text.                      *)
(*                                                                         *)
(* po.llm.Generate returns a text or an error.  A text is a sequence of    *)
(* tokens: a code-fence marker, prose, or one JSON object, which is a      *)
(* record holding the keys the response has.                               *)
(***************************************************************************)
TransientCauses == {"rate limited", "unavailable"}

CancelCauses == {"context canceled"}

GenOK(text) == [err |-> "nil", text |-> text]

GenFail(cause) == [err |-> cause, text |-> << >>]

Fence == [t |-> "fence"]

Prose == [t |-> "prose"]

Object(v) == [t |-> "object", v |-> v]

\* The shapes a generated text takes around its payload.
Bare(tok) == << tok >>

Fenced(tok) == << Fence, tok, Fence >>

OpenFenced(tok) == << Fence, tok >>

Wrapped(tok) == << Prose, tok >>

\* cleanJSONResponse: strips one leading and one trailing fence marker and
\* leaves the rest as it is.
cleanJSONResponse(response) ==
    LET a == IF Len(response) > 0 /\ Head(response) = Fence
             THEN Tail(response) ELSE response
    IN  IF Len(a) > 0 /\ a[Len(a)] = Fence
        THEN SubSeq(a, 1, Len(a) - 1) ELSE a

\* json.Unmarshal into a struct: fails unless the text is one JSON object; a
\* key the object lacks leaves the field at its zero value.
Unmarshal(text) ==
    IF Len(text) = 1 /\ text[1].t = "object"
    THEN [ok |-> TRUE, v |-> text[1].v]
    ELSE [ok |-> FALSE, v |-> [none |-> 0]]

Field(v, key, zero) == IF key \in DOMAIN v THEN v[key] ELSE zero

DecodeAssessment(v) ==
    [metrics      |-> Field(v, "metrics", 0),
     strengths    |-> Field(v, "strengths", 0),
     weaknesses   |-> Field(v, "weaknesses", 0),
     suggestions  |-> Field(v, "suggestions", 0),
     overallScore |-> Field(v, "overallScore", 0),
     overallGrade |-> Field(v, "overallGrade", "")]

\* llm.Validate on a PromptAssessment: each of the four lists holds at least
\* one item and the overall score lies in [0, 20].
Validate(assessment) ==
    IF \/ assessment.metrics < 1
       \/ assessment.strengths < 1
       \/ assessment.weaknesses < 1
       \/ assessment.suggestions < 1
    THEN "required"
    ELSE IF assessment.overallScore < 0 \/ assessment.overallScore > MaxScore
         THEN "range"
         ELSE "nil"

\* normalizeGrade: a grade of the letter scale stays; a numeric grade is
\* mapped onto the scale; anything else is an error.
LetterScale == << "F", "D", "C", "B", "A", "A+" >>

LetterSet == {LetterScale[i] : i \in 1 .. Len(LetterScale)}

\* The numeric strings of the model, the whole grades 0 .. 20 in order, and
\* the value each parses to (in 1/Unit).
NumericStrings ==
    << "0", "1", "2", "3", "4", "5", "6", "7", "8", "9", "10",
       "11", "12", "13", "14", "15", "16", "17", "18", "19", "20" >>

NumericValue ==
    [s \in {NumericStrings[i] : i \in 1 .. Len(NumericStrings)} |->
        ((CHOOSE i \in 1 .. Len(NumericStrings) : NumericStrings[i] = s) - 1)
            * Unit]

LetterOf(value) ==
    IF value >= 19 * Unit THEN "A+"
    ELSE IF value >= 17 * Unit THEN "A"
    ELSE IF value >= 12 * Unit THEN "B"
    ELSE IF value >= 7 * Unit THEN "C"
    ELSE IF value >= 2 * Unit THEN "D"
    ELSE "F"

normalizeGrade(grade, score) ==
    IF grade \in LetterSet
    THEN [grade |-> grade, err |-> "nil"]
    ELSE IF grade \in DOMAIN NumericValue
         THEN [grade |-> LetterOf(NumericValue[grade]), err |-> "nil"]
         ELSE [grade |-> "", err |-> "grade"]

(***************************************************************************)
(* assessPrompt                                                            *)
(***************************************************************************)
\* fmt.Errorf("...: %w", err): the message of the failing step, wrapping the
\* underlying error.
Wrap(msg, cause) == Error(msg, cause)

AssessFail(e) == [entry |-> ZeroEntry, err |-> e]

\* Mutants of assessPrompt.  In the first the generation error is formatted
\* into the message and no longer wrapped; in the second it is not checked
\* and the empty response goes on to the decoder.
AssessPrompt_AfterGenerate(prompt, response) ==
    LET dec == Unmarshal(cleanJSONResponse(response))
        assessment == DecodeAssessment(dec.v)
        norm == normalizeGrade(assessment.overallGrade, assessment.overallScore)
    IN  IF ~dec.ok
        THEN AssessFail(Wrap("failed to parse assessment response", "json"))
        ELSE IF Validate(assessment) # "nil"
        THEN AssessFail(Wrap("invalid assessment structure", Validate(assessment)))
        ELSE IF norm.err # "nil"
        THEN AssessFail(Wrap("invalid overall grade", norm.err))
        ELSE [entry |-> [prompt |-> prompt,
                         assessment |->
                             [assessment EXCEPT !.overallGrade = norm.grade]],
              err |-> NoErr]

assessPrompt_Unwrapped(prompt, gen) ==
    IF gen.err # "nil"
    THEN AssessFail(Error("failed to assess prompt", "text"))
    ELSE AssessPrompt_AfterGenerate(prompt, gen.text)

assessPrompt_Unchecked(prompt, gen) ==
    AssessPrompt_AfterGenerate(prompt, gen.text)

\* Further mutants of assessPrompt, each one step of it changed: the
\* validation is left out; the normalized grade is not stored back; a failed
\* normalization returns the decoded entry with its error; the normalization
\* runs before the validation; the entry is built without its Prompt.
NormalizedEntry(prompt, assessment, grade) ==
    [entry |-> [prompt |-> prompt,
                assessment |-> [assessment EXCEPT !.overallGrade = grade]],
     err |-> NoErr]

assessPrompt_NoValidate(prompt, gen) ==
    IF gen.err # "nil"
    THEN AssessFail(Wrap("failed to assess prompt", gen.err))
    ELSE LET dec == Unmarshal(cleanJSONResponse(gen.text))
             assessment == DecodeAssessment(dec.v)
             norm == normalizeGrade(assessment.overallGrade,
                                    assessment.overallScore)
         IN  IF ~dec.ok
             THEN AssessFail(Wrap("failed to parse assessment response", "json"))
             ELSE IF norm.err # "nil"
             THEN AssessFail(Wrap("invalid overall grade", norm.err))
             ELSE NormalizedEntry(prompt, assessment, norm.grade)

assessPrompt_RawGrade(prompt, gen) ==
    IF gen.err # "nil"
    THEN AssessFail(Wrap("failed to assess prompt", gen.err))
    ELSE LET dec == Unmarshal(cleanJSONResponse(gen.text))
             assessment == DecodeAssessment(dec.v)
             norm == normalizeGrade(assessment.overallGrade,
                                    assessment.overallScore)
         IN  IF ~dec.ok
             THEN AssessFail(Wrap("failed to parse assessment response", "json"))
             ELSE IF Validate(assessment) # "nil"
             THEN AssessFail(Wrap("invalid assessment structure",
                                  Validate(assessment)))
             ELSE IF norm.err # "nil"
             THEN AssessFail(Wrap("invalid overall grade", norm.err))
             ELSE NormalizedEntry(prompt, assessment, assessment.overallGrade)

assessPrompt_PartialEntry(prompt, gen) ==
    IF gen.err # "nil"
    THEN AssessFail(Wrap("failed to assess prompt", gen.err))
    ELSE LET dec == Unmarshal(cleanJSONResponse(gen.text))
             assessment == DecodeAssessment(dec.v)
             norm == normalizeGrade(assessment.overallGrade,
                                    assessment.overallScore)
         IN  IF ~dec.ok
             THEN AssessFail(Wrap("failed to parse assessment response", "json"))
             ELSE IF Validate(assessment) # "nil"
             THEN AssessFail(Wrap("invalid assessment structure",
                                  Validate(assessment)))
             ELSE IF norm.err # "nil"
             THEN [entry |-> [prompt |-> prompt, assessment |-> assessment],
                   err |-> Wrap("invalid overall grade", norm.err)]
             ELSE NormalizedEntry(prompt, assessment, norm.grade)

assessPrompt_GradeFirst(prompt, gen) ==
    IF gen.err # "nil"
    THEN AssessFail(Wrap("failed to assess prompt", gen.err))
    ELSE LET dec == Unmarshal(cleanJSONResponse(gen.text))
             assessment == DecodeAssessment(dec.v)
             norm == normalizeGrade(assessment.overallGrade,
                                    assessment.overallScore)
         IN  IF ~dec.ok
             THEN AssessFail(Wrap("failed to parse assessment response", "json"))
             ELSE IF norm.err # "nil"
             THEN AssessFail(Wrap("invalid overall grade", norm.err))
             ELSE IF Validate(assessment) # "nil"
             THEN AssessFail(Wrap("invalid assessment structure",
                                  Validate(assessment)))
             ELSE NormalizedEntry(prompt, assessment, norm.grade)

assessPrompt_NoPrompt(prompt, gen) ==
    IF gen.err # "nil"
    THEN AssessFail(Wrap("failed to assess prompt", gen.err))
    ELSE LET dec == Unmarshal(cleanJSONResponse(gen.text))
             assessment == DecodeAssessment(dec.v)
             norm == normalizeGrade(assessment.overallGrade,
                                    assessment.overallScore)
         IN  IF ~dec.ok
             THEN AssessFail(Wrap("failed to parse assessment response", "json"))
             ELSE IF Validate(assessment) # "nil"
             THEN AssessFail(Wrap("invalid assessment structure",
                                  Validate(assessment)))
             ELSE IF norm.err # "nil"
             THEN AssessFail(Wrap("invalid overall grade", norm.err))
             ELSE NormalizedEntry(NilPrompt, assessment, norm.grade)

assessPrompt(prompt, gen) ==
    IF gen.err # "nil"
    THEN AssessFail(Wrap("failed to assess prompt", gen.err))
    ELSE LET dec == Unmarshal(cleanJSONResponse(gen.text))
             assessment == DecodeAssessment(dec.v)
             norm == normalizeGrade(assessment.overallGrade,
                                    assessment.overallScore)
         IN  IF ~dec.ok
             THEN AssessFail(Wrap("failed to parse assessment response", "json"))
             ELSE IF Validate(assessment) # "nil"
             THEN AssessFail(Wrap("invalid assessment structure",
                                  Validate(assessment)))
             ELSE IF norm.err # "nil"
             THEN AssessFail(Wrap("invalid overall grade", norm.err))
             ELSE [entry |-> [prompt |-> prompt,
                              assessment |->
                                  [assessment EXCEPT !.overallGrade = norm.grade]],
                   err |-> NoErr]

(***************************************************************************)
(* generateImprovedPrompt                                                  *)
(***************************************************************************)
ZeroImpact == [incremental |-> 0, bold |-> 0]

DecodeImproved(v) ==
    [IncrementalImprovement |-> Field(v, "incrementalImprovement", ZeroPrompt),
     BoldRedesign           |-> Field(v, "boldRedesign", ZeroPrompt),
     ExpectedImpact         |-> Field(v, "expectedImpact", ZeroImpact)]

\* Mutants of generateImprovedPrompt: the generation error is formatted into
\* the message and no longer wrapped; the bold variant also wins a tie.
generateImprovedPrompt_Unwrapped(prevEntry, gen) ==
    IF gen.err # "nil"
    THEN [prompt |-> NilPrompt,
          err |-> Error("failed to generate improved prompt", "text")]
    ELSE LET dec == Unmarshal(cleanJSONResponse(gen.text))
             improvedPrompts == DecodeImproved(dec.v)
         IN  IF ~dec.ok
             THEN [prompt |-> NilPrompt,
                   err |-> Wrap("failed to parse improved prompts", "json")]
             ELSE IF improvedPrompts.ExpectedImpact.bold >
                         improvedPrompts.ExpectedImpact.incremental
             THEN [prompt |-> improvedPrompts.BoldRedesign, err |-> NoErr]
             ELSE [prompt |-> improvedPrompts.IncrementalImprovement,
                   err |-> NoErr]

generateImprovedPrompt_TieBold(prevEntry, gen) ==
    IF gen.err # "nil"
    THEN [prompt |-> NilPrompt,
          err |-> Wrap("failed to generate improved prompt", gen.err)]
    ELSE LET dec == Unmarshal(cleanJSONResponse(gen.text))
             improvedPrompts == DecodeImproved(dec.v)
         IN  IF ~dec.ok
             THEN [prompt |-> NilPrompt,
                   err |-> Wrap("failed to parse improved prompts", "json")]
             ELSE IF improvedPrompts.ExpectedImpact.bold >=
                         improvedPrompts.ExpectedImpact.incremental
             THEN [prompt |-> improvedPrompts.BoldRedesign, err |-> NoErr]
             ELSE [prompt |-> improvedPrompts.IncrementalImprovement,
                   err |-> NoErr]

generateImprovedPrompt(prevEntry, gen) ==
    IF gen.err # "nil"
    THEN [prompt |-> NilPrompt,
          err |-> Wrap("failed to generate improved prompt", gen.err)]
    ELSE LET dec == Unmarshal(cleanJSONResponse(gen.text))
             improvedPrompts == DecodeImproved(dec.v)
         IN  IF ~dec.ok
             THEN [prompt |-> NilPrompt,
                   err |-> Wrap("failed to parse improved prompts", "json")]
             ELSE IF improvedPrompts.ExpectedImpact.bold >
                         improvedPrompts.ExpectedImpact.incremental
             THEN [prompt |-> improvedPrompts.BoldRedesign, err |-> NoErr]
             ELSE [prompt |-> improvedPrompts.IncrementalImprovement,
                   err |-> NoErr]

(***************************************************************************)
(* The controller at rest, for the specifications that exercise one        *)
(* function; and the call variables at rest, for the run.                  *)
(***************************************************************************)
DefaultConfig ==
    [ratingSystem |-> "", threshold |-> 0, iterations |-> 0,
     memorySize |-> 0, maxRetries |-> 0]

CtlOff ==
    /\ cfg = DefaultConfig
    /\ pc = "Off"
    /\ phase = "fresh"
    /\ currentPrompt = InitialPrompt
    /\ entry = ZeroEntry
    /\ history = << >>
    /\ log = << >>
    /\ waits = 0
    /\ rounds = 0
    /\ iteration = 0
    /\ result = NilPrompt
    /\ err = NoRunErr
    /\ cancelled = FALSE

NoCall == [fn |-> "none"]

(***************************************************************************)
(* The optimization controller (OptimizePrompt): the round loop            *)
(* Scoring -> Deciding -> Improving -> Scoring ... -> Done | Failed, with  *)
(* the bounded retry around the two engines and the cancellation signal.   *)
(***************************************************************************)
\* The configurations a constructed optimizer can hold.
CtlRatingSystems == {"", "numerical", "letter"}

CtlThresholds == {0, 1, Unit}

CtlMemorySizes == {0, 1}

Configs ==
    [ratingSystem : CtlRatingSystems,
     threshold    : CtlThresholds,
     iterations   : 0 .. MaxIterations,
     memorySize   : CtlMemorySizes,
     maxRetries   : 0 .. MaxRetriesBound]

\* What the service can answer to an assessment request: a transient
\* failure, or a text.  The scores sit on and just below 20 * threshold.
AssessmentObject(lists, score, grade) ==
    [metrics |-> 1, strengths |-> lists, weaknesses |-> 1, suggestions |-> 1,
     overallScore |-> score, overallGrade |-> grade]

High(c) == 20 * c.threshold

Low(c) == IF 20 * c.threshold > 0 THEN 20 * c.threshold - 1 ELSE 0

AssessTexts(c) ==
    { Bare(Prose),
      Bare(Object(AssessmentObject(1, High(c), "A"))),
      Fenced(Object(AssessmentObject(1, Low(c), "B"))),
      Bare(Object(AssessmentObject(1, High(c), "12"))),
      Bare(Object(AssessmentObject(1, Low(c), "E"))),
      Bare(Object(AssessmentObject(0, High(c), "A"))),
      Bare(Object(AssessmentObject(1, MaxScore + 1, "A"))) }

AssessOutcomes(c) ==
    {GenFail(x) : x \in TransientCauses} \cup {GenOK(t) : t \in AssessTexts(c)}

\* What the service can answer to an improvement request.
ImprovedObject(keys, i, b) ==
    [k \in keys \cup {"expectedImpact"} |->
        CASE k = "incrementalImprovement" -> "incremental"
          [] k = "boldRedesign" -> "bold"
          [] OTHER -> [incremental |-> i, bold |-> b]]

BothVariants == {"incrementalImprovement", "boldRedesign"}

CtlImproveTexts ==
    { Bare(Prose),
      Fenced(Object(ImprovedObject(BothVariants, 1, 1))),
      Bare(Object(ImprovedObject(BothVariants, 0, 1))),
      Bare(Object(ImprovedObject({"boldRedesign"}, 1, 0))) }

CtlImproveOutcomes ==
    {GenFail(x) : x \in TransientCauses} \cup {GenOK(t) : t \in CtlImproveTexts}

\* Generate honours ctx: once ctx is done the call in flight returns its error.
Answers(outcomes) ==
    IF cancelled THEN {GenFail("context canceled")} ELSE outcomes

\* What one attempt's Generate call did, for the attempt log.
Outcome(gen) ==
    IF gen.err # "nil" THEN gen.err
    ELSE IF Len(cleanJSONResponse(gen.text)) = 1
            /\ cleanJSONResponse(gen.text)[1].t = "object"
         THEN "object" ELSE "malformed"

\* The history buffer: append, then drop from the front what exceeds the
\* capacity.  recordEntry_DropBack is its mutant: it drops from the back.
recordEntry_DropBack(h, e, capacity) ==
    LET appended == Append(h, e)
    IN  IF Len(appended) > capacity
        THEN SubSeq(appended, 1, capacity)
        ELSE appended

recordEntry(h, e, capacity) ==
    LET appended == Append(h, e)
    IN  IF Len(appended) > capacity
        THEN SubSeq(appended, Len(appended) - capacity + 1, Len(appended))
        ELSE appended

\* Which engine errors the retry wrapper retries.  RetryAny is its mutant.
RetryAny(e) == TRUE

Retryable(e) == e.cause \in TransientCauses

IsCancellation(e) == e.cause \in CancelCauses

InitRun ==
    /\ cfg \in Configs
    /\ pc = "Scoring"
    /\ phase = "fresh"
    /\ currentPrompt = InitialPrompt
    /\ entry = ZeroEntry
    /\ history = << >>
    /\ log = << >>
    /\ waits = 0
    /\ rounds = 1
    /\ iteration = 0
    /\ result = NilPrompt
    /\ err = NoRunErr
    /\ cancelled = FALSE
    /\ args = NoCall
    /\ ret = NoCall

Running == pc \in {"Scoring", "Deciding", "Improving"}

\* The caller cancels ctx (or its deadline passes) while the run is going.
Cancel ==
    /\ Running
    /\ ~cancelled
    /\ cancelled' = TRUE
    /\ UNCHANGED << cfg, pc, phase, currentPrompt, entry, history, log, waits,
                    rounds, iteration, result, err, callVars >>

\* The first attempt of a Scoring or Improving state.
StartCall ==
    /\ pc \in {"Scoring", "Improving"}
    /\ phase = "fresh"
    /\ ~cancelled
    /\ phase' = "inflight"
    /\ log' = << >>
    /\ waits' = 0
    /\ UNCHANGED << cfg, pc, currentPrompt, entry, history, rounds, iteration,
                    result, err, cancelled, callVars >>

Fail(state, attempts, e) ==
    /\ pc' = "Failed"
    /\ err' = RunErr(state, attempts, e)

\* assessPrompt returns to the Scoring state.
ReturnScoring ==
    /\ pc = "Scoring"
    /\ phase = "inflight"
    /\ \E gen \in Answers(AssessOutcomes(cfg)) :
          LET r == assessPrompt(currentPrompt, gen)
          IN  /\ log' = Append(log, Outcome(gen))
              /\ IF r.err = NoErr
                 THEN /\ entry' = r.entry
                      /\ history' = recordEntry(history, r.entry, cfg.memorySize)
                      /\ pc' = "Deciding"
                      /\ phase' = "fresh"
                      /\ UNCHANGED err
                 ELSE IF Retryable(r.err) /\ Len(log) + 1 <= cfg.maxRetries
                 THEN /\ phase' = "wait"
                      /\ UNCHANGED << pc, entry, history, err >>
                 ELSE /\ Fail("Scoring", Len(log) + 1, r.err)
                      /\ UNCHANGED << phase, entry, history >>
    /\ UNCHANGED << cfg, currentPrompt, waits, rounds, iteration, result,
                    cancelled, callVars >>

\* The retry delay has passed: the next attempt starts.
WaitDone ==
    /\ pc \in {"Scoring", "Improving"}
    /\ phase = "wait"
    /\ ~cancelled
    /\ phase' = "inflight"
    /\ waits' = waits + 1
    /\ UNCHANGED << cfg, pc, currentPrompt, entry, history, log, rounds,
                    iteration, result, err, cancelled, callVars >>

\* ctx is found done outside a generation call: in the retry delay, or
\* between two states.
Abort ==
    /\ Running
    /\ cancelled
    /\ phase \in {"fresh", "wait"}
    /\ Fail(pc, Len(log), Error("cancelled", "context canceled"))
    /\ UNCHANGED << cfg, phase, currentPrompt, entry, history, log, waits,
                    rounds, iteration, result, cancelled, callVars >>

\* The termination policy, on the entry just recorded.
Decide ==
    /\ pc = "Deciding"
    /\ ~cancelled
    /\ LET goal == isOptimizationGoalMet(cfg, entry.assessment)
       IN  IF goal.err # NoErr
           THEN /\ Fail("Deciding", 1, goal.err)
                /\ UNCHANGED result
           ELSE IF goal.met \/ iteration >= cfg.iterations
           THEN /\ pc' = "Done"
                /\ result' = entry.prompt
                /\ UNCHANGED err
           ELSE /\ pc' = "Improving"
                /\ UNCHANGED << result, err >>
    /\ UNCHANGED << cfg, phase, currentPrompt, entry, history, log, waits,
                    rounds, iteration, cancelled, callVars >>

\* generateImprovedPrompt returns to the Improving state.
ReturnImproving ==
    /\ pc = "Improving"
    /\ phase = "inflight"
    /\ \E gen \in Answers(CtlImproveOutcomes) :
          LET r == generateImprovedPrompt(entry, gen)
          IN  /\ log' = Append(log, Outcome(gen))
              /\ IF r.err = NoErr
                 THEN /\ currentPrompt' = r.prompt
                      /\ iteration' = iteration + 1
                      /\ rounds' = rounds + 1
                      /\ pc' = "Scoring"
                      /\ phase' = "fresh"
                      /\ UNCHANGED err
                 ELSE IF Retryable(r.err) /\ Len(log) + 1 <= cfg.maxRetries
                 THEN /\ phase' = "wait"
                      /\ UNCHANGED << pc, currentPrompt, iteration, rounds, err >>
                 ELSE /\ Fail("Improving", Len(log) + 1, r.err)
                      /\ UNCHANGED << phase, currentPrompt, iteration, rounds >>
    /\ UNCHANGED << cfg, entry, history, waits, result, cancelled, callVars >>

Next ==
    \/ Cancel
    \/ StartCall
    \/ ReturnScoring
    \/ WaitDone
    \/ Abort
    \/ Decide
    \/ ReturnImproving

Spec == InitRun /\ [][Next]_vars

\* The run under fairness.  OptimizePrompt is one sequential call: whenever
\* one of its own steps can be taken it is taken in the end (a generation
\* call returns, with a text or an error; a retry delay passes).  Cancel is
\* the caller's and is under no obligation.
Step ==
    \/ StartCall
    \/ ReturnScoring
    \/ WaitDone
    \/ Abort
    \/ Decide
    \/ ReturnImproving

FairSpec == Spec /\ WF_vars(Step)

(***************************************************************************)
(* Properties of the run (Spec).                                           *)
(***************************************************************************)
Last(q) == q[Len(q)]

AllTransient(q) == \A i \in 1 .. Len(q) : q[i] \in TransientCauses

\* A Scoring or Improving state has just succeeded; log and waits are those
\* of that state.
Succeeded ==
    \/ pc = "Deciding"
    \/ pc = "Scoring" /\ phase = "fresh" /\ rounds > 1

\* Generation calls started in the current state.
Attempts == Len(log) + (IF Running /\ phase = "inflight" THEN 1 ELSE 0)

\* The termination rule as the specification words it.
GoalReached(c, assessment) ==
    \/ c.ratingSystem = "numerical"
         /\ assessment.overallScore >= 20 * c.threshold
    \/ c.ratingSystem = "letter"
         /\ assessment.overallGrade \in {"A+", "A", "A-"}

\* C3: a run with max iterations = 0 performs exactly one Scoring round,
\* never enters Improving, and once its Scoring has succeeded it leaves
\* Deciding (ctx not cancelled) only to Done, returning the initial prompt.
C3_ZeroIterations ==
    /\ [](cfg.iterations = 0 =>
            /\ rounds = 1
            /\ iteration = 0
            /\ pc # "Improving"
            /\ (pc = "Done" => result = InitialPrompt /\ err = NoRunErr))
    /\ [][(cfg.iterations = 0 /\ pc = "Deciding" /\ ~cancelled
              /\ pc' # "Deciding") =>
             (pc' = "Done" /\ result' = InitialPrompt /\ rounds' = 1)]_vars

C3_Witness ==
    /\ cfg.iterations = 0
    /\ cfg.ratingSystem = "numerical"
    /\ cfg.threshold = Unit
    /\ pc = "Done"
    /\ entry.assessment.overallScore < 20 * cfg.threshold
    /\ result = InitialPrompt
    /\ rounds = 1

\* C4: a run whose first successful assessment meets the goal leaves Deciding
\* (ctx not cancelled) only to Done, after that one Scoring round and with no
\* Improving round, whatever the max iteration count; with numerical rating
\* and threshold 0 every run is such a run.
C4_GoalMetAtOnce ==
    /\ []((cfg.ratingSystem = "numerical" /\ cfg.threshold = 0) =>
            (rounds = 1 /\ iteration = 0 /\ pc # "Improving"))
    /\ [][(pc = "Deciding" /\ rounds = 1 /\ ~cancelled /\ pc' # "Deciding"
              /\ GoalReached(cfg, entry.assessment)) =>
             (pc' = "Done" /\ rounds' = 1 /\ iteration' = 0
                 /\ result' = entry.prompt)]_vars

C4_Witness ==
    /\ cfg.ratingSystem = "numerical"
    /\ cfg.threshold = 0
    /\ cfg.iterations = MaxIterations
    /\ pc = "Done"
    /\ entry.assessment.overallScore = 0
    /\ rounds = 1

\* C5: transient failures within the retry budget do not fail the run, and a
\* state that succeeds on attempt N+1 after N transient failures
\* (N <= max retries) has performed exactly N retry delays, one before each
\* attempt but the first.
C5_RetryThenSucceed ==
    /\ (~cancelled /\ AllTransient(log) /\ Len(log) <= cfg.maxRetries) =>
           pc # "Failed"
    /\ waits = Attempts - (IF Attempts = 0 THEN 0 ELSE 1)
    /\ Succeeded =>
           /\ Len(log) >= 1
           /\ Last(log) = "object"
           /\ AllTransient(SubSeq(log, 1, Len(log) - 1))
           /\ Len(log) - 1 <= cfg.maxRetries
           /\ waits = Len(log) - 1

C5_Witness ==
    /\ pc = "Scoring"
    /\ phase = "fresh"
    /\ rounds > 1
    /\ cfg.maxRetries = MaxRetriesBound
    /\ Len(log) = cfg.maxRetries + 1
    /\ waits = cfg.maxRetries
    /\ entry.prompt = InitialPrompt

\* C6: no state makes more attempts than max retries + 1; a run whose every
\* attempt of a state failed with a transient error is Failed only after that
\* many attempts, carrying the error of the last one; Failed and Done are
\* final, so it never reaches Done and makes no further attempt.
C6_RetryExhausted ==
    /\ [](Attempts <= cfg.maxRetries + 1)
    /\ []((pc = "Failed" /\ ~cancelled /\ Len(log) >= 1
              /\ Last(log) \in TransientCauses) =>
            /\ AllTransient(log)
            /\ Len(log) = cfg.maxRetries + 1
            /\ err.attempts = Len(log)
            /\ err.state \in {"Scoring", "Improving"}
            /\ err.cause.cause = Last(log))
    /\ []((~cancelled /\ Len(log) = cfg.maxRetries + 1
              /\ Last(log) \in TransientCauses) => pc = "Failed")
    /\ [][(pc \in {"Failed", "Done"}) => (vars' = vars)]_vars

C6_Witness ==
    /\ pc = "Failed"
    /\ err.state = "Improving"
    /\ cfg.maxRetries = MaxRetriesBound
    /\ Len(log) = MaxRetriesBound + 1
    /\ log[1] = "rate limited"
    /\ Last(log) = "unavailable"
    /\ err.cause.cause = "unavailable"

\* C7: once ctx is cancelled (in a retry delay, in a generation call or
\* between states) the run starts no further attempt and its only step is to
\* Failed with a cancellation error, never a transient-service or a
\* malformed-response error.
C7_Cancellation ==
    /\ [](cancelled => pc # "Done")
    /\ []((cancelled /\ pc = "Failed") =>
            /\ IsCancellation(err.cause)
            /\ err.cause.cause \notin TransientCauses
            /\ err.cause.cause # "json")
    /\ [][cancelled =>
             /\ pc' = "Failed"
             /\ IsCancellation(err'.cause)
             /\ waits' = waits
             /\ phase' = phase
             /\ Len(log') <= Len(log) + (IF phase = "inflight" THEN 1 ELSE 0)]_vars

C7_Witness ==
    /\ cancelled
    /\ pc = "Failed"
    /\ phase = "wait"
    /\ err.state = "Improving"
    /\ Len(log) = 1
    /\ IsCancellation(err.cause)

GoalInputs ==
    [po : [ratingSystem : RatingSystems, threshold : 0 .. Unit + 1],
     assessment : [overallScore : 0 .. MaxScore, overallGrade : GradeStrings]]

InitGoal ==
    /\ CtlOff
    /\ args \in GoalInputs
    /\ ret = NoCall

CallGoalMet ==
    /\ pc = "Off"
    /\ ret = NoCall
    /\ "po" \in DOMAIN args
    /\ ret' = [fn |-> "isOptimizationGoalMet",
               out |-> isOptimizationGoalMet(args.po, args.assessment)]
    /\ UNCHANGED << ctlVars, args >>

NextGoal == CallGoalMet

SpecGoal == InitGoal /\ [][NextGoal]_vars

\* C1: in numerical mode the goal is met, with no error, exactly when
\* overallScore >= 20 * threshold; the boundary overallScore = 20 * threshold
\* is met.
C1_NumericalGoal ==
    (ret.fn = "isOptimizationGoalMet" /\ args.po.ratingSystem = "numerical") =>
        /\ ret.out.err = NoErr
        /\ ret.out.met = (args.assessment.overallScore >= 20 * args.po.threshold)
        /\ (args.assessment.overallScore = 20 * args.po.threshold => ret.out.met)

C1_Witness ==
    /\ ret.fn = "isOptimizationGoalMet"
    /\ args.po.ratingSystem = "numerical"
    /\ args.po.threshold = 1
    /\ args.assessment.overallScore = 20
    /\ ret.out.met

\* C2: in letter mode the goal is met for A+, A, A- and not met for the other
\* ten grades of the table, whatever overallScore and threshold are.
C2_LetterGoal ==
    (ret.fn = "isOptimizationGoalMet" /\ args.po.ratingSystem = "letter") =>
        /\ args.assessment.overallGrade \in {"A+", "A", "A-"} =>
              (ret.out.met /\ ret.out.err = NoErr)
        /\ args.assessment.overallGrade \in
              {"B+", "B", "B-", "C+", "C", "C-", "D+", "D", "D-", "F"} =>
              (~ret.out.met /\ ret.out.err = NoErr)

C2_Witness ==
    /\ ret.fn = "isOptimizationGoalMet"
    /\ args.po.ratingSystem = "letter"
    /\ args.assessment.overallGrade = "A-"
    /\ args.assessment.overallScore = 0
    /\ args.po.threshold = Unit
    /\ ret.out.met

(***************************************************************************)
(* SpecImprove: generateImprovedPrompt on every outcome of Generate of the *)
(* bounded input space.                                                    *)
(***************************************************************************)
\* The JSON objects an improvement response can hold: each variant present
\* or missing, every pair of expected impacts.
ImprovedObjects ==
    {[k \in keys \cup {"expectedImpact"} |->
         CASE k = "incrementalImprovement" -> "incremental"
           [] k = "boldRedesign" -> "bold"
           [] OTHER -> [incremental |-> i, bold |-> b]] :
     keys \in SUBSET {"incrementalImprovement", "boldRedesign"},
     i \in 0 .. MaxScore, b \in 0 .. MaxScore}

ImproveTexts ==
    {Bare(Prose), Fenced(Prose)}
        \cup {Bare(Object(o)) : o \in ImprovedObjects}
        \cup {Fenced(Object(o)) : o \in ImprovedObjects}
        \cup {OpenFenced(Object(o)) : o \in ImprovedObjects}
        \cup {Wrapped(Object(o)) : o \in ImprovedObjects}

ImproveOutcomes ==
    {GenFail(c) : c \in TransientCauses \cup CancelCauses}
        \cup {GenOK(t) : t \in ImproveTexts}

SomeEntry ==
    [prompt |-> InitialPrompt,
     assessment |-> [metrics |-> 1, strengths |-> 1, weaknesses |-> 1,
                     suggestions |-> 1, overallScore |-> 0, overallGrade |-> "F"]]

InitImprove ==
    /\ CtlOff
    /\ args \in [prevEntry : {SomeEntry}, gen : ImproveOutcomes]
    /\ ret = NoCall

CallImprove ==
    /\ pc = "Off"
    /\ ret = NoCall
    /\ "prevEntry" \in DOMAIN args
    /\ ret' = [fn |-> "generateImprovedPrompt",
               out |-> generateImprovedPrompt(args.prevEntry, args.gen)]
    /\ UNCHANGED << ctlVars, args >>

NextImprove == CallImprove

SpecImprove == InitImprove /\ [][NextImprove]_vars

\* The JSON object of a response that decodes, and whether a call decoded one.
ResponseObject(gen) == cleanJSONResponse(gen.text)[1].v

Decodes(gen) ==
    /\ gen.err = "nil"
    /\ Len(cleanJSONResponse(gen.text)) = 1
    /\ cleanJSONResponse(gen.text)[1].t = "object"

\* C9: of a decoded response, generateImprovedPrompt returns the bold variant
\* exactly when its expected impact is strictly greater than the incremental
\* one's, and the incremental variant otherwise; equal impacts select the
\* incremental variant.
C9_SelectsByImpact ==
    (ret.fn = "generateImprovedPrompt" /\ Decodes(args.gen)) =>
        LET o == ResponseObject(args.gen)
            incremental == Field(o, "incrementalImprovement", ZeroPrompt)
            bold == Field(o, "boldRedesign", ZeroPrompt)
        IN  /\ ret.out.err = NoErr
            /\ ret.out.prompt =
                   IF o.expectedImpact.bold > o.expectedImpact.incremental
                   THEN bold ELSE incremental
            /\ (o.expectedImpact.bold = o.expectedImpact.incremental =>
                   ret.out.prompt = incremental)

C9_Witness ==
    /\ ret.fn = "generateImprovedPrompt"
    /\ Decodes(args.gen)
    /\ DOMAIN ResponseObject(args.gen) =
           {"incrementalImprovement", "boldRedesign", "expectedImpact"}
    /\ ResponseObject(args.gen).expectedImpact = [incremental |-> 3, bold |-> 3]
    /\ ret.out.prompt = "incremental"

\* C10: of a decoded response that lacks one of the two variants,
\* generateImprovedPrompt returns a missing-variant error and no prompt; it
\* never returns an empty prompt as the improvement.
C10_MissingVariantError ==
    ret.fn = "generateImprovedPrompt" =>
        /\ (/\ Decodes(args.gen)
            /\ ~ ({"incrementalImprovement", "boldRedesign"} \subseteq
                     DOMAIN ResponseObject(args.gen))) =>
               /\ ret.out.err.kind = "missing variant"
               /\ ret.out.prompt = NilPrompt
        /\ ret.out.err = NoErr => ret.out.prompt # ZeroPrompt

(***************************************************************************)
(* SpecAssess: assessPrompt on every outcome of Generate of the bounded    *)
(* input space.                                                            *)
(***************************************************************************)
\* The JSON objects an assessment response can hold: each of the four lists
\* empty or not, scores in and out of [0, 20], every grade string; and the
\* objects that lack one key.
AssessKeys ==
    {"metrics", "strengths", "weaknesses", "suggestions",
     "overallScore", "overallGrade"}

AssessScores == {0 - 1, 0, MaxScore, MaxScore + 1}

AssessGrades == GradeStrings \cup DOMAIN NumericValue

AssessObjects ==
    [metrics : 0 .. 1, strengths : 0 .. 1, weaknesses : 0 .. 1,
     suggestions : 0 .. 1, overallScore : AssessScores,
     overallGrade : AssessGrades]

PartialObjects ==
    {[k \in AssessKeys \ {key} |-> AssessmentObject(1, MaxScore, "A")[k]] :
        key \in AssessKeys}

AssessCallTexts ==
    {Bare(Prose), Fenced(Prose)}
        \cup {Bare(Object(o)) : o \in AssessObjects \cup PartialObjects}
        \cup {Fenced(Object(o)) : o \in AssessObjects \cup PartialObjects}
        \cup {OpenFenced(Object(o)) : o \in AssessObjects \cup PartialObjects}
        \cup {Wrapped(Object(o)) : o \in AssessObjects \cup PartialObjects}

AssessCallOutcomes ==
    {GenFail(c) : c \in TransientCauses \cup CancelCauses}
        \cup {GenOK(t) : t \in AssessCallTexts}

InitAssess ==
    /\ CtlOff
    /\ args \in [prompt : {InitialPrompt, "bold"}, gen : AssessCallOutcomes]
    /\ ret = NoCall

CallAssess ==
    /\ pc = "Off"
    /\ ret = NoCall
    /\ "prompt" \in DOMAIN args
    /\ ret' = [fn |-> "assessPrompt",
               out |-> assessPrompt(args.prompt, args.gen)]
    /\ UNCHANGED << ctlVars, args >>

NextAssess == CallAssess

SpecAssess == InitAssess /\ [][NextAssess]_vars

(***************************************************************************)
(* SpecAll: the optimization run together with the calls of its three      *)
(* parts on their whole input spaces, for the properties that speak of the *)
(* run and of a part at once.                                              *)
(***************************************************************************)
InitAll == InitRun \/ InitGoal \/ InitAssess \/ InitImprove

NextAll == Next \/ NextGoal \/ NextAssess \/ NextImprove

SpecAll == InitAll /\ [][NextAll]_vars

\* The assessment a decoded response holds, and whether its lists are filled.
ResponseAssessment(gen) == DecodeAssessment(ResponseObject(gen))

ListsFilled(assessment) ==
    /\ assessment.metrics >= 1
    /\ assessment.strengths >= 1
    /\ assessment.weaknesses >= 1
    /\ assessment.suggestions >= 1

\* C11: a decoded assessment in which any of the lists metrics, strengths,
\* weaknesses, suggestions is empty is rejected by assessPrompt with the
\* validation error and the empty OptimizationEntry, whatever its other
\* fields hold; no such assessment is in the history of a run or is the
\* entry that Deciding, Improving or Done work on.
C11_EmptyListRejected ==
    /\ (/\ ret.fn = "assessPrompt"
        /\ Decodes(args.gen)
        /\ ~ListsFilled(ResponseAssessment(args.gen))) =>
           /\ ret.out.err = Error("invalid assessment structure", "required")
           /\ ret.out.entry = ZeroEntry
    /\ \A i \in DOMAIN history : ListsFilled(history[i].assessment)
    /\ pc \in {"Deciding", "Improving", "Done"} => ListsFilled(entry.assessment)

C11_Witness ==
    /\ ret.fn = "assessPrompt"
    /\ Decodes(args.gen)
    /\ ResponseAssessment(args.gen) =
           [metrics |-> 1, strengths |-> 1, weaknesses |-> 1, suggestions |-> 0,
            overallScore |-> MaxScore, overallGrade |-> "A"]
    /\ ret.out.err.kind = "invalid assessment structure"
    /\ ret.out.entry = ZeroEntry

\* The place of a letter on the scale F < D < C < B < A < A+.
Rank(letter) == CHOOSE i \in 1 .. Len(LetterScale) : LetterScale[i] = letter

\* C12: of a valid assessment whose overall grade is a number of [0, 20],
\* assessPrompt stores a letter of {F, D, C, B, A, A+} as the grade, and the
\* mapping is monotonic: a higher number never gets a lower letter, a lower
\* number never a higher one.
C12_NumericGradeNormalized ==
    (/\ ret.fn = "assessPrompt"
     /\ Decodes(args.gen)
     /\ Validate(ResponseAssessment(args.gen)) = "nil"
     /\ ResponseAssessment(args.gen).overallGrade \in DOMAIN NumericValue) =>
        LET grade == ResponseAssessment(args.gen).overallGrade
            score == ResponseAssessment(args.gen).overallScore
            letter == ret.out.entry.assessment.overallGrade
        IN  /\ ret.out.err = NoErr
            /\ letter \in LetterSet
            /\ \A other \in DOMAIN NumericValue :
                   LET l2 == normalizeGrade(other, score).grade
                   IN  /\ l2 \in LetterSet
                       /\ NumericValue[other] >= NumericValue[grade] =>
                              Rank(l2) >= Rank(letter)
                       /\ NumericValue[other] <= NumericValue[grade] =>
                              Rank(l2) <= Rank(letter)

C12_Witness ==
    /\ ret.fn = "assessPrompt"
    /\ Decodes(args.gen)
    /\ Validate(ResponseAssessment(args.gen)) = "nil"
    /\ ResponseAssessment(args.gen).overallGrade = "18"
    /\ ret.out.err = NoErr
    /\ ret.out.entry.assessment.overallGrade = "A"

(***************************************************************************)
(* SpecHistory: the History Buffer under every sequence of record          *)
(* operations of bounded length, for every capacity.  args.recorded keeps  *)
(* all entries ever recorded, history is the buffer.                       *)
(***************************************************************************)
MaxCapacity == 2

MaxRecords == 4

\* The entries recorded: assessments of three different prompts.
HistoryEntries ==
    {[prompt |-> p,
      assessment |-> DecodeAssessment(AssessmentObject(1, MaxScore, "A"))] :
        p \in {InitialPrompt, "incremental", "bold"}}

InitHistory ==
    /\ \E n \in 0 .. MaxCapacity :
           cfg = [DefaultConfig EXCEPT !.memorySize = n]
    /\ pc = "Off"
    /\ phase = "fresh"
    /\ currentPrompt = InitialPrompt
    /\ entry = ZeroEntry
    /\ history = << >>
    /\ log = << >>
    /\ waits = 0
    /\ rounds = 0
    /\ iteration = 0
    /\ result = NilPrompt
    /\ err = NoRunErr
    /\ cancelled = FALSE
    /\ args = [recorded |-> << >>]
    /\ ret = NoCall

\* recent(): the read-only view of the buffer.
recent == history

Record ==
    /\ pc = "Off"
    /\ "recorded" \in DOMAIN args
    /\ Len(args.recorded) < MaxRecords
    /\ \E e \in HistoryEntries :
           /\ history' = recordEntry(history, e, cfg.memorySize)
           /\ args' = [recorded |-> Append(args.recorded, e)]
    /\ UNCHANGED << cfg, pc, phase, currentPrompt, entry, log, waits, rounds,
                    iteration, result, err, cancelled, ret >>

NextHistory == Record

SpecHistory == InitHistory /\ [][NextHistory]_vars

Min(a, b) == IF a <= b THEN a ELSE b

LastOf(q, n) == SubSeq(q, Len(q) - n + 1, Len(q))

\* C13: after any sequence of record operations on a buffer of capacity N,
\* recent() is at most N long and is the last min(k, N) of the k entries
\* recorded, in insertion order, oldest first; a record operation appends at
\* the back and removes entries only from the front and only on overflow.
C13_HistoryBuffer ==
    [][("recorded" \in DOMAIN args /\ args' # args) =>
          LET k == Len(args'.recorded)
              appended == Append(recent, args'.recorded[k])
              dropped == Len(appended) - Len(recent')
          IN  /\ Len(recent') <= cfg.memorySize
              /\ recent' = LastOf(args'.recorded, Min(k, cfg.memorySize))
              /\ dropped >= 0
              /\ recent' = SubSeq(appended, dropped + 1, Len(appended))
              /\ dropped > 0 => Len(appended) > cfg.memorySize]_vars

C13_Witness ==
    /\ "recorded" \in DOMAIN args
    /\ cfg.memorySize = 2
    /\ Len(args.recorded) = 4
    /\ args.recorded[1] # args.recorded[2]
    /\ args.recorded[3] # args.recorded[4]
    /\ args.recorded[2] # args.recorded[3]
    /\ recent = << args.recorded[3], args.recorded[4] >>

\* An assessment that passed validation and grade normalization.
ValidNormalized(assessment) ==
    /\ ListsFilled(assessment)
    /\ assessment.overallScore \in 0 .. MaxScore
    /\ assessment.overallGrade \in LetterSet

\* C14: a run ends with a prompt and no error or with an error and no
\* prompt; assessPrompt returns the empty OptimizationEntry with every error
\* and otherwise the input prompt with a decoded, validated, normalized
\* assessment; generateImprovedPrompt returns the nil prompt with every error
\* and only then; the prompt a run returns is the prompt of an entry whose
\* assessment is validated and normalized.
C14_PromptOrError ==
    /\ ret.fn = "assessPrompt" =>
           IF ret.out.err # NoErr
           THEN ret.out.entry = ZeroEntry
           ELSE /\ Decodes(args.gen)
                /\ ret.out.entry.prompt = args.prompt
                /\ ValidNormalized(ret.out.entry.assessment)
    /\ ret.fn = "generateImprovedPrompt" =>
           (ret.out.err # NoErr <=> ret.out.prompt = NilPrompt)
    /\ Running => (result = NilPrompt /\ err = NoRunErr)
    /\ pc = "Done" =>
           /\ result # NilPrompt
           /\ err = NoRunErr
           /\ result = entry.prompt
           /\ ValidNormalized(entry.assessment)
    /\ pc = "Failed" => (result = NilPrompt /\ err # NoRunErr)

C14_Witness ==
    /\ pc = "Done"
    /\ result = "bold"
    /\ err = NoRunErr
    /\ entry.prompt = "bold"
    /\ entry.assessment.overallGrade = "B"

\* C15: every run reaches Done or Failed; the rounds never exceed max
\* iterations + 1 and the attempts of a state never exceed max retries + 1;
\* a run fails only on an engine failure or a cancellation; a run that ends
\* in Done without the goal met has used up its max iterations, and Deciding
\* at the iteration cap (ctx not cancelled) moves to Done returning the
\* entry's prompt.
C15_Terminates ==
    /\ <>(pc \in {"Done", "Failed"})
    /\ [](/\ rounds <= cfg.iterations + 1
          /\ iteration <= cfg.iterations
          /\ Attempts <= cfg.maxRetries + 1)
    /\ [](pc = "Failed" =>
             (err.state \in {"Scoring", "Improving"} \/ IsCancellation(err.cause)))
    /\ []((pc = "Done" /\ ~GoalReached(cfg, entry.assessment)) =>
             iteration = cfg.iterations)
    /\ [][(/\ pc = "Deciding"
           /\ pc' # "Deciding"
           /\ ~cancelled
           /\ iteration >= cfg.iterations) =>
              (pc' = "Done" /\ result' = entry.prompt)]_vars

C15_Witness ==
    /\ pc = "Done"
    /\ cfg.iterations = MaxIterations
    /\ iteration = MaxIterations
    /\ rounds = MaxIterations + 1
    /\ ~GoalReached(cfg, entry.assessment)
    /\ ~cancelled
    /\ result # InitialPrompt

\* C16: with the rating system unset isOptimizationGoalMet returns (false,
\* no error) for every assessment and threshold; a run so configured reaches
\* Done only at the iteration cap and fails only on an engine failure or a
\* cancellation, never on the outcome of Deciding.
C16_UnsetRatingSystem ==
    /\ (ret.fn = "isOptimizationGoalMet" /\ args.po.ratingSystem = "") =>
           ret.out = [met |-> FALSE, err |-> NoErr]
    /\ (cfg.ratingSystem = "" /\ pc = "Done") => iteration = cfg.iterations
    /\ (cfg.ratingSystem = "" /\ pc = "Failed") =>
           /\ err.cause.kind \notin {"unknown rating system", "invalid grade"}
           /\ err.state \in {"Scoring", "Improving"} \/ IsCancellation(err.cause)

C16_Witness ==
    /\ cfg.ratingSystem = ""
    /\ cfg.iterations = MaxIterations
    /\ pc = "Done"
    /\ iteration = MaxIterations
    /\ entry.assessment.overallScore = MaxScore
    /\ entry.assessment.overallGrade = "A"

\* C18: isOptimizationGoalMet returns an error exactly when the rating
\* system is non-empty and neither "numerical" nor "letter", or is "letter"
\* with an overall grade that is not a key of the grade table; with an error
\* it returns false.
C18_GoalMetErrors ==
    ret.fn = "isOptimizationGoalMet" =>
        /\ ret.out.err # NoErr <=>
              \/ args.po.ratingSystem \notin {"", "numerical", "letter"}
              \/ /\ args.po.ratingSystem = "letter"
                 /\ args.assessment.overallGrade \notin TableGrades
        /\ ret.out.err # NoErr => ~ret.out.met

C18_Witness ==
    /\ ret.fn = "isOptimizationGoalMet"
    /\ args.po.ratingSystem = "letter"
    /\ args.assessment.overallGrade = "E"
    /\ args.assessment.overallScore = MaxScore
    /\ ret.out.err = Error("invalid grade", "E")
    /\ ~ret.out.met

\* C17: assessPrompt reports the error of the first step that fails, in
\* the order generation, fence stripping and decode, validation, grade
\* normalization, each with the empty entry; only when every step succeeds
\* does it return the input prompt paired with the decoded assessment whose
\* grade is normalized and whose other fields are as decoded.
C17_StepsInOrder ==
    ret.fn = "assessPrompt" =>
        LET a == ResponseAssessment(args.gen)
        IN  IF args.gen.err # "nil"
            THEN /\ ret.out.err = Error("failed to assess prompt", args.gen.err)
                 /\ ret.out.entry = ZeroEntry
            ELSE IF ~Decodes(args.gen)
            THEN /\ ret.out.err.kind = "failed to parse assessment response"
                 /\ ret.out.entry = ZeroEntry
            ELSE IF \/ ~ListsFilled(a)
                    \/ a.overallScore \notin 0 .. MaxScore
            THEN /\ ret.out.err.kind = "invalid assessment structure"
                 /\ ret.out.entry = ZeroEntry
            ELSE IF a.overallGrade \notin LetterSet \cup DOMAIN NumericValue
            THEN /\ ret.out.err.kind = "invalid overall grade"
                 /\ ret.out.entry = ZeroEntry
            ELSE /\ ret.out.err = NoErr
                 /\ ret.out.entry.prompt = args.prompt
                 /\ ret.out.entry.assessment.overallGrade \in LetterSet
                 /\ ret.out.entry.assessment =
                        [a EXCEPT !.overallGrade =
                                      ret.out.entry.assessment.overallGrade]

C17_Witness ==
    /\ ret.fn = "assessPrompt"
    /\ args.gen.err = "nil"
    /\ args.gen.text = Fenced(Object(AssessmentObject(0, MaxScore + 1, "E")))
    /\ ret.out.err = Error("invalid assessment structure", "required")
    /\ ret.out.entry = ZeroEntry

\* C19: Improving is entered only from a Deciding that did not stop (goal
\* not met, iterations left) and works on the entry of the Scoring just
\* before, which is the assessment of the current prompt and the newest
\* entry of the history; the prompt Improving returns becomes the current
\* prompt and is the one the next Scoring assesses; an Improving that fails
\* ends the run in Failed, with no further round.
C19_ImprovingOrder ==
    /\ [][(pc' = "Improving" /\ pc # "Improving") =>
             /\ pc = "Deciding"
             /\ ~GoalReached(cfg, entry.assessment)
             /\ iteration < cfg.iterations
             /\ entry' = entry]_vars
    /\ [](pc \in {"Deciding", "Improving"} =>
             /\ entry.prompt = currentPrompt
             /\ cfg.memorySize >= 1 => Last(history) = entry)
    /\ [][(pc = "Improving" /\ pc' = "Scoring") =>
             /\ \E gen \in CtlImproveOutcomes :
                    /\ generateImprovedPrompt(entry, gen).err = NoErr
                    /\ generateImprovedPrompt(entry, gen).prompt = currentPrompt'
             /\ currentPrompt' # NilPrompt
             /\ rounds' = rounds + 1]_vars
    /\ [][(pc = "Scoring" /\ pc' = "Deciding") =>
             /\ currentPrompt' = currentPrompt
             /\ entry'.prompt = currentPrompt]_vars
    /\ [][(pc = "Improving" /\ pc' # "Improving") =>
             pc' \in {"Scoring", "Failed"}]_vars
    /\ [][(pc = "Failed") => (pc' = "Failed" /\ rounds' = rounds)]_vars

C19_Witness ==
    /\ pc = "Deciding"
    /\ rounds = 2
    /\ iteration = 1
    /\ currentPrompt = "bold"
    /\ entry.prompt = "bold"
    /\ cfg.memorySize = 1
    /\ history = << entry >>

(***************************************************************************)
(* ExtractStructuredData.  Strings are sequences of characters; the two    *)
(* generation calls and the schema generator answer as the inputs say; the *)
(* result carries the external calls made, in order.                       *)
(***************************************************************************)
Whitespace == {" ", "\n", "\t"}

\* strings.TrimSpace: the string without its leading and trailing white space.
TrimSpace(str) ==
    LET solid == {i \in 1 .. Len(str) : str[i] \notin Whitespace}
    IN  IF solid = {}
        THEN << >>
        ELSE SubSeq(str,
                    CHOOSE i \in solid : \A j \in solid : i <= j,
                    CHOOSE i \in solid : \A j \in solid : i >= j)

\* strings.ToLower on the letters of the model.
LowerOf ==
    [c \in {"Y", "E", "S", "N", "O"} |->
        CASE c = "Y" -> "y" [] c = "E" -> "e" [] c = "S" -> "s"
          [] c = "N" -> "n" [] OTHER -> "o"]

ToLower(str) ==
    [i \in 1 .. Len(str) |->
        IF str[i] \in DOMAIN LowerOf THEN LowerOf[str[i]] ELSE str[i]]

NilResult == "<nil>"

ExtractFail(kind, cause, calls) ==
    [result |-> NilResult, err |-> Error(kind, cause), calls |-> calls]

\* The target type T of the model: one field, name, tagged required.
DecodeT(v) == [name |-> Field(v, "name", "")]

ValidateT(value) == IF value.name = "" THEN "required" ELSE "nil"

\* Mutant of ExtractStructuredData: the text is compared with "" untrimmed.
Extract_AfterChecks(text, env) ==
    IF env.schema # "nil"
    THEN ExtractFail("failed to generate JSON schema", env.schema,
                     << "GenerateJSONSchema" >>)
    ELSE IF env.validation.err # "nil"
    THEN ExtractFail("failed to validate text content", env.validation.err,
                     << "GenerateJSONSchema", "Generate" >>)
    ELSE IF TrimSpace(ToLower(env.validation.text)) # << "y", "e", "s" >>
    THEN ExtractFail("text does not contain enough extractable information",
                     "", << "GenerateJSONSchema", "Generate" >>)
    ELSE IF env.extraction.err # "nil"
    THEN ExtractFail("failed to generate structured data", env.extraction.err,
                     << "GenerateJSONSchema", "Generate", "Generate" >>)
    ELSE LET dec == Unmarshal(env.extraction.text)
             value == DecodeT(dec.v)
             calls == << "GenerateJSONSchema", "Generate", "Generate" >>
         IN  IF ~dec.ok
             THEN ExtractFail("failed to parse response", "json", calls)
             ELSE IF ValidateT(value) # "nil"
             THEN ExtractFail("validation failed", ValidateT(value), calls)
             ELSE [result |-> value, err |-> NoErr, calls |-> calls]

ExtractStructuredData_NoTrim(ctx, l, text, env) ==
    IF ctx = "nil" THEN ExtractFail("context cannot be nil", "", << >>)
    ELSE IF l = "nil" THEN ExtractFail("LLM instance cannot be nil", "", << >>)
    ELSE IF text = << >> THEN ExtractFail("text cannot be empty", "", << >>)
    ELSE Extract_AfterChecks(text, env)

ExtractStructuredData(ctx, l, text, env) ==
    IF ctx = "nil" THEN ExtractFail("context cannot be nil", "", << >>)
    ELSE IF l = "nil" THEN ExtractFail("LLM instance cannot be nil", "", << >>)
    ELSE IF TrimSpace(text) = << >>
    THEN ExtractFail("text cannot be empty", "", << >>)
    ELSE IF env.schema # "nil"
    THEN ExtractFail("failed to generate JSON schema", env.schema,
                     << "GenerateJSONSchema" >>)
    ELSE IF env.validation.err # "nil"
    THEN ExtractFail("failed to validate text content", env.validation.err,
                     << "GenerateJSONSchema", "Generate" >>)
    ELSE IF TrimSpace(ToLower(env.validation.text)) # << "y", "e", "s" >>
    THEN ExtractFail("text does not contain enough extractable information",
                     "", << "GenerateJSONSchema", "Generate" >>)
    ELSE IF env.extraction.err # "nil"
    THEN ExtractFail("failed to generate structured data", env.extraction.err,
                     << "GenerateJSONSchema", "Generate", "Generate" >>)
    ELSE LET dec == Unmarshal(env.extraction.text)
             value == DecodeT(dec.v)
             calls == << "GenerateJSONSchema", "Generate", "Generate" >>
         IN  IF ~dec.ok
             THEN ExtractFail("failed to parse response", "json", calls)
             ELSE IF ValidateT(value) # "nil"
             THEN ExtractFail("validation failed", ValidateT(value), calls)
             ELSE [result |-> value, err |-> NoErr, calls |-> calls]

(***************************************************************************)
(* SpecExtract: ExtractStructuredData on every combination of arguments    *)
(* and answers of the bounded input space.                                 *)
(***************************************************************************)
ExtractTexts ==
    {<< >>, << " " >>, << " ", "\n", "\t" >>, << "J", "o", "e" >>,
     << " ", "J", "o", "e", "\n" >>, << "J", " ", "D" >>}

\* "U+662F" and "U+5426" are the one-character answers the validation
\* prompt asks for (yes and no).
ValidationResponses ==
    {<< "y", "e", "s" >>, << "Y", "e", "s" >>, << " ", "Y", "E", "S", "\n" >>,
     << "y", "e", "s", "." >>, << "n", "o" >>, << "N", "O" >>,
     << "U+662F" >>, << "U+5426" >>, << >>}

ExtractionResponses ==
    {Bare(Object([name |-> "Joe"])), Bare(Object([name |-> ""])),
     Bare(Object([age |-> 1])), Fenced(Object([name |-> "Joe"])),
     Bare(Prose)}

ExtractEnvs ==
    [schema : {"nil", "unsupported type"},
     validation : {GenFail(c) : c \in TransientCauses}
                      \cup {GenOK(t) : t \in ValidationResponses},
     extraction : {GenFail(c) : c \in TransientCauses}
                      \cup {GenOK(t) : t \in ExtractionResponses}]

InitExtract ==
    /\ CtlOff
    /\ args \in [ctx : {"nil", "ctx"}, l : {"nil", "llm"},
                 text : ExtractTexts, env : ExtractEnvs]
    /\ ret = NoCall

CallExtract ==
    /\ pc = "Off"
    /\ ret = NoCall
    /\ "text" \in DOMAIN args
    /\ ret' = [fn |-> "ExtractStructuredData",
               out |-> ExtractStructuredData(args.ctx, args.l, args.text,
                                             args.env)]
    /\ UNCHANGED << ctlVars, args >>

NextExtract == CallExtract

SpecExtract == InitExtract /\ [][NextExtract]_vars

\* C20: ExtractStructuredData called with a nil context, a nil LLM or a text
\* that holds white space only returns a nil result and an error, and has
\* made no call: no schema was generated, no Generate was issued.
C20_InputsChecked ==
    (/\ ret.fn = "ExtractStructuredData"
     /\ \/ args.ctx = "nil"
        \/ args.l = "nil"
        \/ \A i \in 1 .. Len(args.text) : args.text[i] \in Whitespace) =>
        /\ ret.out.result = NilResult
        /\ ret.out.err # NoErr
        /\ ret.out.calls = << >>

C20_Witness ==
    /\ ret.fn = "ExtractStructuredData"
    /\ args.ctx = "ctx"
    /\ args.l = "llm"
    /\ args.text = << " ", "\n", "\t" >>
    /\ args.env.schema = "nil"
    /\ args.env.validation = GenOK(<< "y", "e", "s" >>)
    /\ args.env.extraction = GenOK(Bare(Object([name |-> "Joe"])))
    /\ ret.out.err = Error("text cannot be empty", "")
    /\ ret.out.calls = << >>

\* The answer the content-check request tells the service to give when the
\* text holds extractable information, and the error of a text that does not.
Affirmative == << "U+662F" >>

NotEnoughInformation ==
    Error("text does not contain enough extractable information", "")

\* C21: when the content check is answered with the affirmative token its
\* request asks for, ExtractStructuredData goes on to the extraction Generate
\* call; the error "text does not contain enough extractable information"
\* is returned only for an answer that is not the affirmative token.
C21_AffirmativeProceeds ==
    (/\ ret.fn = "ExtractStructuredData"
     /\ args.ctx # "nil"
     /\ args.l # "nil"
     /\ \E i \in 1 .. Len(args.text) : args.text[i] \notin Whitespace
     /\ args.env.schema = "nil"
     /\ args.env.validation.err = "nil") =>
        /\ args.env.validation.text = Affirmative =>
              /\ ret.out.calls = << "GenerateJSONSchema", "Generate", "Generate" >>
              /\ ret.out.err # NotEnoughInformation
        /\ ret.out.err = NotEnoughInformation =>
              args.env.validation.text # Affirmative

(***************************************************************************)
(* The command line program (main).  A run of it is its flags, the outcome *)
(* of gollm.NewLLM and the outcome of the operation the prompt type        *)
(* selects; its result is the exit status, what was written to stderr and  *)
(* to stdout, and whether printResponse was called.                        *)
(***************************************************************************)
\* The responses of the model and json.Unmarshal into interface{} on them.
JSONResponses == {"{\"answer\": 42}"}

PlainResponses == {"The answer is 42."}

Pretty(response) == [indented |-> response]

\* printResponse: the header when verbose, then the response, pretty-printed
\* when the output format is json and the response parses.
printResponse(verbose, promptType, fullPrompt, rawPrompt, response, outputFormat) ==
    LET shown == IF fullPrompt = "" THEN rawPrompt ELSE fullPrompt
        header == IF verbose
                  THEN << [promptType |-> promptType, fullPrompt |-> shown] >>
                  ELSE << >>
    IN  IF outputFormat = "json"
        THEN IF response \in JSONResponses
             THEN [stdout |-> Append(header, Pretty(response)), stderr |-> << >>]
             ELSE [stdout |-> Append(header, response),
                   stderr |-> << "Error parsing JSON response" >>]
        ELSE [stdout |-> Append(header, response), stderr |-> << >>]

RawPrompt == "What is the answer?"

\* The switch on the prompt type: the values of response, fullPrompt and of
\* main's err after it.  op is what the selected operation returns.  In the
\* optimize case the result of OptimizePrompt is bound with := to a new err
\* of the case clause: main's err keeps the nil it had after NewLLM.
Switch(promptType, op) ==
    CASE promptType \in {"qa", "cot", "summarize"} ->
           [response |-> op.response, fullPrompt |-> "", err |-> op.err]
      [] promptType = "optimize" ->
           IF op.err = "nil"
           THEN [response |-> op.response, fullPrompt |-> "Initial Prompt",
                 err |-> "nil"]
           ELSE [response |-> "", fullPrompt |-> "", err |-> "nil"]
      [] OTHER ->
           [response |-> op.response, fullPrompt |-> "prompt.String()",
            err |-> op.err]

Exit(status, stderr, stdout, printed) ==
    [exit |-> status, stderr |-> stderr, stdout |-> stdout, printed |-> printed]

main(in) ==
    IF in.newLLM # "nil"
    THEN Exit(1, << "Error creating LLM client" >>, << >>, FALSE)
    ELSE IF in.nargs < 1
    THEN Exit(1, << "Usage" >>, << >>, FALSE)
    ELSE LET sw == Switch(in.promptType, in.op)
         IN  IF sw.err # "nil"
             THEN Exit(1, << "Error generating response" >>, << >>, FALSE)
             ELSE LET out == printResponse(in.verbose, in.promptType,
                                           sw.fullPrompt, RawPrompt,
                                           sw.response, in.outputFormat)
                  IN  Exit(0, out.stderr, out.stdout, TRUE)

(***************************************************************************)
(* SpecCLI: main on every combination of flags and outcomes of the bounded *)
(* input space.                                                            *)
(***************************************************************************)
PromptTypes == {"raw", "qa", "cot", "summarize", "optimize", "other"}

OpOutcomes ==
    {[err |-> "nil", response |-> r] : r \in JSONResponses \cup PlainResponses}
        \cup {[err |-> c, response |-> ""] :
                 c \in TransientCauses \cup {"invalid assessment structure"}}

CLIInputs ==
    [promptType : PromptTypes, newLLM : {"nil", "unknown provider"},
     nargs : 0 .. 1, op : OpOutcomes, verbose : BOOLEAN,
     outputFormat : {"", "json"}]

InitCLI ==
    /\ CtlOff
    /\ args \in [in : CLIInputs]
    /\ ret = NoCall

CallMain ==
    /\ pc = "Off"
    /\ ret = NoCall
    /\ "in" \in DOMAIN args
    /\ ret' = [fn |-> "main", out |-> main(args.in)]
    /\ UNCHANGED << ctlVars, args >>

NextCLI == CallMain

SpecCLI == InitCLI /\ [][NextCLI]_vars

\* C22: for every prompt type, when the selected operation returns an error
\* the program writes "Error generating response" to stderr and exits with
\* status 1 without calling printResponse; printResponse is called only when
\* the operation succeeded.
C22_OperationErrorReported ==
    (/\ ret.fn = "main"
     /\ args.in.newLLM = "nil"
     /\ args.in.nargs >= 1) =>
        /\ args.in.op.err # "nil" =>
              /\ ret.out.exit = 1
              /\ ret.out.stderr = << "Error generating response" >>
              /\ ~ret.out.printed
        /\ ret.out.printed => args.in.op.err = "nil"

\* C23: the overall grade of every assessment assessPrompt returns with no
\* error is one of F, D, C, B, A, A+ and a key of the grade table, so that
\* isOptimizationGoalMet in letter mode returns no error on it; in a run the
\* entry Deciding works on has such a grade, and a run never fails with
\* "invalid grade".
C23_NormalizedGradeInTable ==
    /\ (ret.fn = "assessPrompt" /\ ret.out.err = NoErr) =>
           /\ ret.out.entry.assessment.overallGrade \in
                  {"F", "D", "C", "B", "A", "A+"}
           /\ ret.out.entry.assessment.overallGrade \in DOMAIN gradeValues
           /\ \A t \in 0 .. Unit :
                  isOptimizationGoalMet([ratingSystem |-> "letter", threshold |-> t],
                                        ret.out.entry.assessment).err = NoErr
    /\ pc \in {"Deciding", "Improving", "Done"} =>
           entry.assessment.overallGrade \in DOMAIN gradeValues
    /\ pc = "Failed" =>
           /\ err.cause.kind # "invalid grade"
           /\ (cfg.ratingSystem = "letter" /\ err.state = "Deciding") =>
                  IsCancellation(err.cause)

C23_Witness ==
    /\ cfg.ratingSystem = "letter"
    /\ pc = "Improving"
    /\ rounds = 1
    /\ ~cancelled
    /\ entry.assessment.overallGrade = "B"
    /\ entry.prompt = InitialPrompt

====
